---- MODULE Spec2Model ----
(***************************************************************************)
(* Sygma proxy (sygma_proxy/src/main.rs): the admission pipeline of the    *)
(* gateway.  One listener accepts connections and spawns one pipeline      *)
(* (handle_connection) per connection; the pipelines share TRUST_CACHE.    *)
(*                                                                         *)
(* Strings are sequences of one-character strings, so that split, trim,    *)
(* starts_with and format! are computed character by character.            *)
(***************************************************************************)
EXTENDS Integers, Sequences, FiniteSets, TLC

(***************************************************************************)
(* Bounds of the model.                                                    *)
(***************************************************************************)
\* seconds one Tick of the clock advances
TickStep == 200
\* the clock stops advancing once it has reached this value
MaxClock == 400
\* bytes a failed write_all may already have put on the wire
MaxPartial == 1
\* max_capacity(10_000) of TRUST_CACHE, scaled so that the cache fills up
MAX_CAPACITY == 1

\* time_to_live(Duration::from_secs(300)) of TRUST_CACHE
TTL_SECS == 300

\* the pipelines that can run at the same time; a finished one's slot is
\* taken by the next accepted connection
Conns == {1, 2}

(***************************************************************************)
(* String literals of the program.                                         *)
(***************************************************************************)
VALID_PREFIX == <<"A","U","T","H","_","S","Y","G","M","A","_","V","A","L","I","D","_">>

MSG_400 == <<"4","0","0"," ","E","R","R","O","R",":"," ","I","n","v","a","l","i","d"," ","S","y","g","m","a"," ","R","e","q","u","e","s","t"," ","F","o","r","m","a","t">>

MSG_403 == <<"4","0","3"," ","A","C","C","E","S","S"," ","D","E","N","I","E","D",":"," ","Z","e","r","o"," ","T","r","u","s","t"," ","V","i","o","l","a","t","i","o","n">>

MSG_503 == <<"5","0","3"," ","S","E","R","V","I","C","E"," ","U","N","A","V","A","I","L","A","B","L","E",":"," ","K","e","r","n","e","l"," ","T","1"," ","O","f","f","l","i","n","e">>

MSG_200_HEAD == <<"2","0","0"," ","O","K",":"," ","P","a","y","l","o","a","d"," ">>

MSG_200_TAIL == <<" ","s","u","b","m","e","t","i","d","o"," ","a","o"," ","K","e","r","n","e","l"," ","T","1","."," ","A","g","u","a","r","d","a","n","d","o"," ","S","e","t","t","l","e","m","e","n","t",".">>

\* format!("200 OK: Payload {} submetido ao Kernel T1. Aguardando Settlement.", kernel_payload)
KernelResponse(kernel_payload) == MSG_200_HEAD \o kernel_payload \o MSG_200_TAIL

(***************************************************************************)
(* The byte strings one stream.read can return (n <= 1024 bytes each).     *)
(* "xFF" is a byte that is not valid UTF-8.                                *)
(***************************************************************************)
ReadData ==
  { VALID_PREFIX \o <<"9","|","A">>,
    <<" ">> \o VALID_PREFIX \o <<" ","|"," ","A"," ","|","B","\n">>,
    <<"F","R","A","U","D","_","A","T","T","E","M","P","T","_","1","|","X">>,
    <<"A","U","T","H","_","S","Y","G","M","A","_","V","A","L","I","D","xFF","|","X">>,
    <<"j","u","s","t","a","s","t","r","i","n","g">>,
    << >> }

(***************************************************************************)
(* Pure functions of the standard library, as the pipeline uses them.      *)
(***************************************************************************)
\* String::from_utf8_lossy: an invalid byte becomes U+FFFD
FromUtf8Lossy(bytes) ==
  [i \in 1..Len(bytes) |-> IF bytes[i] = "xFF" THEN "uFFFD" ELSE bytes[i]]

\* str::split('|'): the fields between the delimiters, at least one field
RECURSIVE SplitFrom(_, _, _)
SplitFrom(s, i, field) ==
  IF i > Len(s) THEN <<field>>
  ELSE IF s[i] = "|" THEN <<field>> \o SplitFrom(s, i + 1, << >>)
  ELSE SplitFrom(s, i + 1, Append(field, s[i]))

Split(s) == SplitFrom(s, 1, << >>)

IsWhitespace(ch) == ch \in {" ", "\n", "\t", "\r"}

RECURSIVE TrimStart(_)
TrimStart(s) ==
  IF s # << >> /\ IsWhitespace(Head(s)) THEN TrimStart(Tail(s)) ELSE s

RECURSIVE TrimEnd(_)
TrimEnd(s) ==
  IF s # << >> /\ IsWhitespace(s[Len(s)]) THEN TrimEnd(SubSeq(s, 1, Len(s) - 1)) ELSE s

\* str::trim
Trim(s) == TrimEnd(TrimStart(s))

\* starts_with that leaves out the last character of the pattern
StartsWithShort(s, p) ==
  /\ Len(s) >= Len(p) - 1
  /\ \A i \in 1..(Len(p) - 1) : s[i] = p[i]

\* str::starts_with: the pattern is the front of s, element by element
StartsWith(s, p) ==
  /\ Len(s) >= Len(p)
  /\ \A i \in 1..Len(p) : s[i] = p[i]

(***************************************************************************)
(* TRUST_CACHE: a moka cache with max_capacity and time_to_live.  An entry *)
(* is [key, value, inserted]; it expires TTL_SECS after its insertion.     *)
(* An inserted entry is readable at once (tests::test_caching_behavior);   *)
(* when the cache is full the policy evicts a resident entry of its own    *)
(* choice (TinyLFU), which the model leaves open.                          *)
(***************************************************************************)
None == [kind |-> "None"]

Some(v) == [kind |-> "Some", value |-> v]

IsExpired(e, t) == t - e.inserted >= TTL_SECS

\* a get that also serves entries whose time_to_live has passed
CacheGetNoTtl(c, key, t) ==
  IF \E e \in c : e.key = key
  THEN Some((CHOOSE e \in c : e.key = key).value)
  ELSE None

\* a get that serves any live entry, whatever its key
CacheGetAnyKey(c, key, t) ==
  IF \E e \in c : ~IsExpired(e, t)
  THEN Some((CHOOSE e \in c : ~IsExpired(e, t)).value)
  ELSE None

\* TRUST_CACHE.get(token): Some(value) for a live entry, None otherwise
CacheGet(c, key, t) ==
  IF \E e \in c : e.key = key /\ ~IsExpired(e, t)
  THEN Some((CHOOSE e \in c : e.key = key /\ ~IsExpired(e, t)).value)
  ELSE None

\* an insert into a cache built without max_capacity
CacheInsertUnbounded(c, key, value, t) ==
  { {e \in c : e.key # key} \cup {[key |-> key, value |-> value, inserted |-> t]} }

\* TRUST_CACHE.insert(key, value): the caches that can result
CacheInsert(c, key, value, t) ==
  LET rest == {e \in c : e.key # key}
      new  == [key |-> key, value |-> value, inserted |-> t]
  IN  IF Cardinality(rest) < MAX_CAPACITY
      THEN { rest \cup {new} }
      ELSE { (rest \ {victim}) \cup {new} : victim \in rest }

(***************************************************************************)
(* State.                                                                  *)
(***************************************************************************)
VARIABLES
  lpc,          \* main: "start", "configured", "listening", "exited"
  pc,           \* per pipeline: the await point or statement it is at
  buf,          \* per pipeline: buffer[..n], the bytes its read returned
  auth_token,   \* per pipeline: parts[0].trim()
  kernel_payload, \* per pipeline: parts[1].trim()
  verifyRet,    \* per pipeline: what verify_zero_trust_token returned
  probeRet,     \* per pipeline: what check_kernel_health returned
  resp,         \* per pipeline: the bytes handed to write_all
  sent,         \* per pipeline: the bytes written to the stream
  cache,        \* TRUST_CACHE: set of [key, value, inserted]
  now,          \* the clock, in seconds
  downstream,   \* the kernel address: "up", "down" (refuses) or "silent"
  reads,        \* per pipeline: completed stream.read calls
  verifyCalls,  \* per pipeline: calls of verify_zero_trust_token
  slowCalls,    \* per pipeline: runs of the prefix check (cache miss)
  probeCalls,   \* per pipeline: connection attempts to the kernel address
  writes        \* per pipeline: responses written completely

connVars == <<pc, buf, auth_token, kernel_payload, verifyRet, probeRet, resp, sent>>

histVars == <<reads, verifyCalls, slowCalls, probeCalls, writes>>

envVars == <<now, downstream>>

vars == <<lpc, pc, buf, auth_token, kernel_payload, verifyRet, probeRet, resp, sent, cache, now, downstream,
          reads, verifyCalls, slowCalls, probeCalls, writes>>

\* the task has returned (Ok or Err) or was dropped with the runtime
Ended == {"done", "fault", "cancelled"}

Init ==
  /\ lpc = "start"
  /\ pc = [c \in Conns |-> "idle"]
  /\ buf = [c \in Conns |-> << >>]
  /\ auth_token = [c \in Conns |-> << >>]
  /\ kernel_payload = [c \in Conns |-> << >>]
  /\ verifyRet = [c \in Conns |-> None]
  /\ probeRet = [c \in Conns |-> None]
  /\ resp = [c \in Conns |-> << >>]
  /\ sent = [c \in Conns |-> << >>]
  /\ cache = {}
  /\ now = 0
  /\ downstream \in {"up", "down", "silent"}
  /\ reads = [c \in Conns |-> 0]
  /\ verifyCalls = [c \in Conns |-> 0]
  /\ slowCalls = [c \in Conns |-> 0]
  /\ probeCalls = [c \in Conns |-> 0]
  /\ writes = [c \in Conns |-> 0]

(***************************************************************************)
(* main: configuration, bind, accept loop.                                 *)
(***************************************************************************)
\* APP_CONFIG is forced; load_config failing panics before the bind
LoadConfig(ok) ==
  /\ lpc = "start"
  /\ lpc' = IF ok THEN "configured" ELSE "exited"
  /\ UNCHANGED <<connVars, histVars, envVars, cache>>

\* TcpListener::bind(..).await?
Bind(ok) ==
  /\ lpc = "configured"
  /\ lpc' = IF ok THEN "listening" ELSE "exited"
  /\ UNCHANGED <<connVars, histVars, envVars, cache>>

\* an accept loop that awaits handle_connection(stream) instead of spawning it
AcceptAfterHandler(c) ==
  /\ lpc = "listening"
  /\ \A d \in Conns : pc[d] \in {"idle"} \cup Ended
  /\ pc' = [pc EXCEPT ![c] = "read"]
  /\ buf' = [buf EXCEPT ![c] = << >>]
  /\ auth_token' = [auth_token EXCEPT ![c] = << >>]
  /\ kernel_payload' = [kernel_payload EXCEPT ![c] = << >>]
  /\ verifyRet' = [verifyRet EXCEPT ![c] = None]
  /\ probeRet' = [probeRet EXCEPT ![c] = None]
  /\ resp' = [resp EXCEPT ![c] = << >>]
  /\ sent' = [sent EXCEPT ![c] = << >>]
  /\ reads' = [reads EXCEPT ![c] = 0]
  /\ verifyCalls' = [verifyCalls EXCEPT ![c] = 0]
  /\ slowCalls' = [slowCalls EXCEPT ![c] = 0]
  /\ probeCalls' = [probeCalls EXCEPT ![c] = 0]
  /\ writes' = [writes EXCEPT ![c] = 0]
  /\ UNCHANGED <<lpc, envVars, cache>>

\* listener.accept().await returned Ok: spawn handle_connection(stream)
Accept(c) ==
  /\ lpc = "listening"
  /\ pc[c] \in {"idle"} \cup Ended
  /\ pc' = [pc EXCEPT ![c] = "read"]
  /\ buf' = [buf EXCEPT ![c] = << >>]
  /\ auth_token' = [auth_token EXCEPT ![c] = << >>]
  /\ kernel_payload' = [kernel_payload EXCEPT ![c] = << >>]
  /\ verifyRet' = [verifyRet EXCEPT ![c] = None]
  /\ probeRet' = [probeRet EXCEPT ![c] = None]
  /\ resp' = [resp EXCEPT ![c] = << >>]
  /\ sent' = [sent EXCEPT ![c] = << >>]
  /\ reads' = [reads EXCEPT ![c] = 0]
  /\ verifyCalls' = [verifyCalls EXCEPT ![c] = 0]
  /\ slowCalls' = [slowCalls EXCEPT ![c] = 0]
  /\ probeCalls' = [probeCalls EXCEPT ![c] = 0]
  /\ writes' = [writes EXCEPT ![c] = 0]
  /\ UNCHANGED <<lpc, envVars, cache>>

\* listener.accept().await? returned Err: main returns, the runtime shuts down
AcceptFault ==
  /\ lpc = "listening"
  /\ lpc' = "exited"
  /\ UNCHANGED <<connVars, histVars, envVars, cache>>

\* runtime shutdown drops a task that is suspended at an await
Cancel(c) ==
  /\ lpc = "exited"
  /\ pc[c] \in {"read", "probe", "write"}
  /\ pc' = [pc EXCEPT ![c] = "cancelled"]
  /\ UNCHANGED <<lpc, buf, auth_token, kernel_payload, verifyRet, probeRet, resp, sent, histVars, envVars, cache>>

(***************************************************************************)
(* handle_connection, one action per await point or cache operation.       *)
(***************************************************************************)
\* Read with the field test off by one upwards: parts.len() < 3
ReadNeedsThree(c, data) ==
  /\ pc[c] = "read"
  /\ buf' = [buf EXCEPT ![c] = data]
  /\ reads' = [reads EXCEPT ![c] = @ + 1]
  /\ LET parts == Split(FromUtf8Lossy(data))
     IN  IF Len(parts) < 3
         THEN /\ resp' = [resp EXCEPT ![c] = MSG_400]
              /\ pc' = [pc EXCEPT ![c] = "write"]
              /\ UNCHANGED <<auth_token, kernel_payload>>
         ELSE /\ auth_token' = [auth_token EXCEPT ![c] = Trim(parts[1])]
              /\ kernel_payload' = [kernel_payload EXCEPT ![c] = Trim(parts[2])]
              /\ resp' = resp
              /\ pc' = [pc EXCEPT ![c] = "verify"]
  /\ UNCHANGED <<lpc, verifyRet, probeRet, sent, cache, envVars,
                 verifyCalls, slowCalls, probeCalls, writes>>

\* Read that writes the 400 response but goes on to the credential check
ReadNoShortCircuit(c, data) ==
  /\ pc[c] = "read"
  /\ buf' = [buf EXCEPT ![c] = data]
  /\ reads' = [reads EXCEPT ![c] = @ + 1]
  /\ LET parts == Split(FromUtf8Lossy(data))
     IN  /\ auth_token' = [auth_token EXCEPT ![c] = Trim(parts[1])]
         /\ kernel_payload' = [kernel_payload EXCEPT ![c] =
                                 IF Len(parts) < 2 THEN << >> ELSE Trim(parts[2])]
  /\ resp' = resp
  /\ pc' = [pc EXCEPT ![c] = "verify"]
  /\ UNCHANGED <<lpc, verifyRet, probeRet, sent, cache, envVars,
                 verifyCalls, slowCalls, probeCalls, writes>>

\* stream.read(&mut buffer).await? returned Ok(n); split; parts.len() < 2
Read(c, data) ==
  /\ pc[c] = "read"
  /\ buf' = [buf EXCEPT ![c] = data]
  /\ reads' = [reads EXCEPT ![c] = @ + 1]
  /\ LET parts == Split(FromUtf8Lossy(data))
     IN  IF Len(parts) < 2
         THEN /\ resp' = [resp EXCEPT ![c] = MSG_400]
              /\ pc' = [pc EXCEPT ![c] = "write"]
              /\ UNCHANGED <<auth_token, kernel_payload>>
         ELSE /\ auth_token' = [auth_token EXCEPT ![c] = Trim(parts[1])]
              /\ kernel_payload' = [kernel_payload EXCEPT ![c] = Trim(parts[2])]
              /\ resp' = resp
              /\ pc' = [pc EXCEPT ![c] = "verify"]
  /\ UNCHANGED <<lpc, verifyRet, probeRet, sent, cache, envVars,
                 verifyCalls, slowCalls, probeCalls, writes>>

\* stream.read(&mut buffer).await? returned Err: handle_connection returns Err
ReadFault(c) ==
  /\ pc[c] = "read"
  /\ pc' = [pc EXCEPT ![c] = "fault"]
  /\ UNCHANGED <<lpc, buf, auth_token, kernel_payload, verifyRet, probeRet, resp, sent, cache, envVars, histVars>>

\* AfterVerify with the health check placed before the 403 branch
AfterVerifyProbeFirst(c, ret) ==
  /\ verifyRet' = [verifyRet EXCEPT ![c] = Some(ret)]
  /\ resp' = resp
  /\ pc' = [pc EXCEPT ![c] = "probe"]
  /\ probeCalls' = [probeCalls EXCEPT ![c] = @ + 1]

\* verify_zero_trust_token has returned ret: the 403 branch, else the
\* connection attempt of check_kernel_health starts
AfterVerify(c, ret) ==
  /\ verifyRet' = [verifyRet EXCEPT ![c] = Some(ret)]
  /\ IF ~ret
     THEN /\ resp' = [resp EXCEPT ![c] = MSG_403]
          /\ pc' = [pc EXCEPT ![c] = "write"]
          /\ probeCalls' = probeCalls
     ELSE /\ resp' = resp
          /\ pc' = [pc EXCEPT ![c] = "probe"]
          /\ probeCalls' = [probeCalls EXCEPT ![c] = @ + 1]

\* VerifyGet on a cache built with time_to_idle: a hit restarts the entry's clock
VerifyGetRefresh(c) ==
  /\ pc[c] = "verify"
  /\ verifyCalls' = [verifyCalls EXCEPT ![c] = @ + 1]
  /\ LET hit == CacheGet(cache, auth_token[c], now)
     IN  IF hit # None
         THEN /\ AfterVerify(c, hit.value)
              /\ cache' = {IF e.key = auth_token[c]
                           THEN [e EXCEPT !.inserted = now] ELSE e : e \in cache}
         ELSE /\ pc' = [pc EXCEPT ![c] = "slow"]
              /\ UNCHANGED <<verifyRet, resp, probeCalls, cache>>
  /\ UNCHANGED <<lpc, buf, auth_token, kernel_payload, probeRet, sent, envVars, reads, slowCalls, writes>>

\* verify_zero_trust_token(auth_token): TRUST_CACHE.get(token)
VerifyGet(c) ==
  /\ pc[c] = "verify"
  /\ verifyCalls' = [verifyCalls EXCEPT ![c] = @ + 1]
  /\ LET hit == CacheGet(cache, auth_token[c], now)
     IN  IF hit # None
         THEN AfterVerify(c, hit.value)
         ELSE /\ pc' = [pc EXCEPT ![c] = "slow"]
              /\ UNCHANGED <<verifyRet, resp, probeCalls>>
  /\ UNCHANGED <<lpc, buf, auth_token, kernel_payload, probeRet, sent, cache, envVars, reads, slowCalls, writes>>

\* VerifySlow that caches every outcome: insert(token, is_valid)
VerifySlowCacheAll(c) ==
  /\ pc[c] = "slow"
  /\ slowCalls' = [slowCalls EXCEPT ![c] = @ + 1]
  /\ LET is_valid == StartsWith(auth_token[c], VALID_PREFIX)
     IN  /\ cache' \in CacheInsert(cache, auth_token[c], is_valid, now)
         /\ AfterVerify(c, is_valid)
  /\ UNCHANGED <<lpc, buf, auth_token, kernel_payload, probeRet, sent, envVars, reads, verifyCalls, writes>>

\* VerifySlow that never populates the cache
VerifySlowNoInsert(c) ==
  /\ pc[c] = "slow"
  /\ slowCalls' = [slowCalls EXCEPT ![c] = @ + 1]
  /\ cache' = cache
  /\ AfterVerify(c, StartsWith(auth_token[c], VALID_PREFIX))
  /\ UNCHANGED <<lpc, buf, auth_token, kernel_payload, probeRet, sent, envVars, reads, verifyCalls, writes>>

\* VerifySlow that answers an invalid token by emptying the cache
VerifySlowInvalidates(c) ==
  /\ pc[c] = "slow"
  /\ slowCalls' = [slowCalls EXCEPT ![c] = @ + 1]
  /\ LET is_valid == StartsWith(auth_token[c], VALID_PREFIX)
     IN  /\ IF is_valid
            THEN cache' \in CacheInsert(cache, auth_token[c], TRUE, now)
            ELSE cache' = {}
         /\ AfterVerify(c, is_valid)
  /\ UNCHANGED <<lpc, buf, auth_token, kernel_payload, probeRet, sent, envVars, reads, verifyCalls, writes>>

\* verify_zero_trust_token after a miss: starts_with, insert if valid, return
VerifySlow(c) ==
  /\ pc[c] = "slow"
  /\ slowCalls' = [slowCalls EXCEPT ![c] = @ + 1]
  /\ LET is_valid == StartsWith(auth_token[c], VALID_PREFIX)
     IN  /\ IF is_valid
            THEN cache' \in CacheInsert(cache, auth_token[c], TRUE, now)
            ELSE cache' = cache
         /\ AfterVerify(c, is_valid)
  /\ UNCHANGED <<lpc, buf, auth_token, kernel_payload, probeRet, sent, envVars, reads, verifyCalls, writes>>

\* check_kernel_health() has returned ret: the 503 branch, else the 200 response
AfterProbe(c, ret) ==
  /\ probeRet' = [probeRet EXCEPT ![c] = Some(ret)]
  /\ resp' = [resp EXCEPT ![c] =
                IF ~ret THEN MSG_503 ELSE KernelResponse(kernel_payload[c])]
  /\ pc' = [pc EXCEPT ![c] = "write"]

\* a probe that reuses a success another pipeline has observed
ProbeResolveRemembered(c) ==
  /\ pc[c] = "probe"
  /\ downstream \in {"up", "down"}
  /\ AfterProbe(c, downstream = "up" \/ \E d \in Conns : probeRet[d] = Some(TRUE))
  /\ UNCHANGED <<lpc, buf, auth_token, kernel_payload, verifyRet, sent, cache, envVars, histVars>>

\* TcpStream::connect(kernel_address).await resolved: Ok => true, Err => false
ProbeResolve(c) ==
  /\ pc[c] = "probe"
  /\ downstream \in {"up", "down"}
  /\ AfterProbe(c, downstream = "up")
  /\ UNCHANGED <<lpc, buf, auth_token, kernel_payload, verifyRet, sent, cache, envVars, histVars>>

\* the platform gives up a connection attempt that got no answer: Err => false.
\* The program sets no timeout of its own, so nothing obliges this step.
ConnectTimedOut(c) ==
  /\ pc[c] = "probe"
  /\ downstream = "silent"
  /\ AfterProbe(c, FALSE)
  /\ UNCHANGED <<lpc, buf, auth_token, kernel_payload, verifyRet, sent, cache, envVars, histVars>>

\* Write that loops back to read the next request on the same stream
WriteThenLoop(c) ==
  /\ pc[c] = "write"
  /\ sent' = [sent EXCEPT ![c] = resp[c]]
  /\ writes' = [writes EXCEPT ![c] = @ + 1]
  /\ pc' = [pc EXCEPT ![c] = "read"]
  /\ UNCHANGED <<lpc, buf, auth_token, kernel_payload, verifyRet, probeRet, resp, cache, envVars,
                 reads, verifyCalls, slowCalls, probeCalls>>

\* Write that makes the token single-use: TRUST_CACHE.invalidate(token)
WriteInvalidates(c) ==
  /\ pc[c] = "write"
  /\ sent' = [sent EXCEPT ![c] = resp[c]]
  /\ writes' = [writes EXCEPT ![c] = @ + 1]
  /\ pc' = [pc EXCEPT ![c] = "done"]
  /\ cache' = {e \in cache : e.key # auth_token[c]}
  /\ UNCHANGED <<lpc, buf, auth_token, kernel_payload, verifyRet, probeRet, resp, envVars,
                 reads, verifyCalls, slowCalls, probeCalls>>

\* stream.write_all(..).await? returned Ok: return Ok(()), the stream is dropped
Write(c) ==
  /\ pc[c] = "write"
  /\ sent' = [sent EXCEPT ![c] = resp[c]]
  /\ writes' = [writes EXCEPT ![c] = @ + 1]
  /\ pc' = [pc EXCEPT ![c] = "done"]
  /\ UNCHANGED <<lpc, buf, auth_token, kernel_payload, verifyRet, probeRet, resp, cache, envVars,
                 reads, verifyCalls, slowCalls, probeCalls>>

\* WriteFault that takes the token's entry back out of the cache
WriteFaultRollsBack(c, k) ==
  /\ pc[c] = "write"
  /\ k < Len(resp[c])
  /\ sent' = [sent EXCEPT ![c] = SubSeq(resp[c], 1, k)]
  /\ pc' = [pc EXCEPT ![c] = "fault"]
  /\ cache' = {e \in cache : e.key # auth_token[c]}
  /\ UNCHANGED <<lpc, buf, auth_token, kernel_payload, verifyRet, probeRet, resp, envVars, histVars>>

\* stream.write_all(..).await? returned Err after k bytes: return Err
WriteFault(c, k) ==
  /\ pc[c] = "write"
  /\ k < Len(resp[c])
  /\ sent' = [sent EXCEPT ![c] = SubSeq(resp[c], 1, k)]
  /\ pc' = [pc EXCEPT ![c] = "fault"]
  /\ UNCHANGED <<lpc, buf, auth_token, kernel_payload, verifyRet, probeRet, resp, cache, envVars, histVars>>

(***************************************************************************)
(* The cache's own housekeeping and the environment.                       *)
(***************************************************************************)
\* moka drops an entry whose time_to_live has passed
ExpireEntry ==
  /\ \E e \in cache : IsExpired(e, now) /\ cache' = cache \ {e}
  /\ UNCHANGED <<lpc, connVars, histVars, envVars>>

Tick ==
  /\ now < MaxClock
  /\ now' = now + TickStep
  /\ UNCHANGED <<lpc, connVars, histVars, cache, downstream>>

\* the kernel starts, stops, or stops answering
DownstreamChange(s) ==
  /\ s # downstream
  /\ downstream' = s
  /\ UNCHANGED <<lpc, connVars, histVars, cache, now>>

Pipeline(c) ==
  \/ \E data \in ReadData : Read(c, data)
  \/ ReadFault(c)
  \/ VerifyGet(c)
  \/ VerifySlow(c)
  \/ ProbeResolve(c)
  \/ ConnectTimedOut(c)
  \/ Write(c)
  \/ \E k \in 0..MaxPartial : WriteFault(c, k)

Next ==
  \/ \E ok \in BOOLEAN : LoadConfig(ok)
  \/ \E ok \in BOOLEAN : Bind(ok)
  \/ \E c \in Conns : Accept(c)
  \/ AcceptFault
  \/ \E c \in Conns : Cancel(c)
  \/ \E c \in Conns : Pipeline(c)
  \/ ExpireEntry
  \/ Tick
  \/ \E s \in {"up", "down", "silent"} : DownstreamChange(s)

Spec == Init /\ [][Next]_vars

\* The runtime polls a spawned task again whenever it can go on: the cache
\* operations need nothing, a write or a shutdown ends the wait at once.
Progress(c) ==
  \/ VerifyGet(c)
  \/ VerifySlow(c)
  \/ Write(c)
  \/ \E k \in 0..MaxPartial : WriteFault(c, k)
  \/ Cancel(c)

\* A connection attempt is answered if the kernel address answers (accepts or
\* refuses) again and again while the attempt is pending.  Nothing in the
\* program ends an attempt that gets no answer.
FairSpec ==
  /\ Spec
  /\ \A c \in Conns : WF_vars(Progress(c)) /\ SF_vars(ProbeResolve(c))

TypeOK ==
  /\ lpc \in {"start", "configured", "listening", "exited"}
  /\ pc \in [Conns -> {"idle", "read", "verify", "slow", "probe", "write"} \cup Ended]
  /\ \A c \in Conns : buf[c] \in ReadData
  /\ \A c \in Conns : Len(auth_token[c]) <= Len(buf[c])
  /\ \A c \in Conns : Len(kernel_payload[c]) <= Len(buf[c])
  /\ \A c \in Conns : verifyRet[c] \in {None, Some(TRUE), Some(FALSE)}
  /\ \A c \in Conns : probeRet[c] \in {None, Some(TRUE), Some(FALSE)}
  /\ now \in 0..(MaxClock + TickStep)
  /\ downstream \in {"up", "down", "silent"}
  /\ \A e \in cache : e.inserted \in 0..now

(***************************************************************************)
(* Vocabulary of the properties, stated independently of the operators the *)
(* actions use.                                                            *)
(***************************************************************************)
\* number of fields of a request: one more than its '|' characters
FieldCount(s) == 1 + Cardinality({i \in 1..Len(s) : s[i] = "|"})

\* the token begins with AUTH_SYGMA_VALID_
HasValidPrefix(tok) ==
  /\ Len(tok) >= Len(VALID_PREFIX)
  /\ SubSeq(tok, 1, Len(VALID_PREFIX)) = VALID_PREFIX

\* the response begins with "200 OK:"
Is200(r) == Len(r) >= 7 /\ SubSeq(r, 1, 7) = <<"2","0","0"," ","O","K",":">>

IsPrefixOf(a, b) == Len(a) <= Len(b) /\ SubSeq(b, 1, Len(a)) = a

\* the cache holds an entry for the token, of whatever age
Cached(tok) == \E e \in cache : e.key = tok

\* pipeline c takes a step
Steps(c) == pc'[c] # pc[c]

(***************************************************************************)
(* C1.  The credential check comes before the health probe: a pipeline     *)
(* that has made a connection attempt to the kernel address has had its    *)
(* verify call return true before; a pipeline whose token was judged       *)
(* invalid makes no connection attempt.                                    *)
(***************************************************************************)
C1_AuthBeforeProbe ==
  \A c \in Conns :
    /\ (probeCalls[c] > 0 \/ pc[c] = "probe" \/ probeRet[c] # None)
         => (verifyCalls[c] = 1 /\ verifyRet[c] = Some(TRUE))
    /\ verifyRet[c] = Some(FALSE) => (probeCalls[c] = 0 /\ probeRet[c] = None)

\* one pipeline rejected without a probe, another probed after a true verify
C1_Witness ==
  \E c, d \in Conns :
    /\ pc[c] = "done" /\ verifyRet[c] = Some(FALSE) /\ probeCalls[c] = 0
    /\ pc[d] = "done" /\ verifyRet[d] = Some(TRUE) /\ probeCalls[d] = 1

(***************************************************************************)
(* C2.  The response of a pipeline that read its request is determined:    *)
(* 400 iff the request has fewer than two fields; else 403 iff verify      *)
(* returned false; else 503 iff the probe returned false; else 200 OK.     *)
(* Nothing but (a front part of) one of these four texts is ever written.  *)
(***************************************************************************)
C2_ResponseClass ==
  \A c \in Conns :
    /\ pc[c] \in {"write", "done"} =>
         /\ (resp[c] = MSG_400) <=> (FieldCount(buf[c]) < 2)
         /\ (resp[c] = MSG_403) <=>
              (FieldCount(buf[c]) >= 2 /\ verifyRet[c] = Some(FALSE))
         /\ (resp[c] = MSG_503) <=>
              (FieldCount(buf[c]) >= 2 /\ verifyRet[c] = Some(TRUE)
                 /\ probeRet[c] = Some(FALSE))
         /\ Is200(resp[c]) <=>
              (FieldCount(buf[c]) >= 2 /\ verifyRet[c] = Some(TRUE)
                 /\ probeRet[c] = Some(TRUE))
         /\ resp[c] \in {MSG_400, MSG_403, MSG_503} \/ Is200(resp[c])
    /\ pc[c] = "done" => sent[c] = resp[c]
    /\ sent[c] # << >> =>
         /\ IsPrefixOf(sent[c], resp[c])
         /\ resp[c] \in {MSG_400, MSG_403, MSG_503} \/ Is200(resp[c])

\* a 200 and a 503 have been written for well-formed requests with valid tokens
C2_Witness ==
  \E c, d \in Conns :
    /\ pc[c] = "done" /\ Is200(sent[c]) /\ FieldCount(buf[c]) = 3
    /\ pc[d] = "done" /\ sent[d] = MSG_503 /\ FieldCount(buf[d]) = 2

(***************************************************************************)
(* C3.  A pipeline reads one request and writes at most one response:      *)
(* exactly one when it returns Ok, none when it is abandoned by a          *)
(* transport fault; after it has ended it does nothing more on that        *)
(* connection.                                                             *)
(***************************************************************************)
C3_OneResponseInv ==
  \A c \in Conns :
    /\ reads[c] <= 1 /\ writes[c] <= 1
    /\ pc[c] = "done" => (reads[c] = 1 /\ writes[c] = 1)
    /\ pc[c] \in {"fault", "cancelled"} => writes[c] = 0
    /\ writes[c] = 1 => pc[c] = "done"

C3_EndedStaysEnded ==
  \A c \in Conns :
    (pc[c] \in Ended /\ ~(lpc = "listening" /\ pc'[c] = "read" /\ reads'[c] = 0))
      => /\ pc'[c] = pc[c] /\ sent'[c] = sent[c]
         /\ reads'[c] = reads[c] /\ writes'[c] = writes[c]

C3_OneResponse == []C3_OneResponseInv /\ [][C3_EndedStaysEnded]_vars

\* one pipeline answered its request, another was abandoned while writing
C3_Witness ==
  \E c, d \in Conns :
    /\ pc[c] = "done" /\ writes[c] = 1 /\ sent[c] = MSG_403
    /\ pc[d] = "fault" /\ reads[d] = 1 /\ writes[d] = 0 /\ resp[d] # << >>

(***************************************************************************)
(* C4.  A request with fewer than two fields (an empty read included) goes *)
(* straight to the 400 response: the pipeline calls neither the verifier   *)
(* nor the health probe, and none of its steps changes the cache.          *)
(***************************************************************************)
C4_MalformedInv ==
  \A c \in Conns :
    (reads[c] = 1 /\ FieldCount(buf[c]) < 2) =>
      /\ pc[c] \in {"write"} \cup Ended
      /\ resp[c] = MSG_400
      /\ verifyCalls[c] = 0 /\ slowCalls[c] = 0 /\ probeCalls[c] = 0
      /\ verifyRet[c] = None /\ probeRet[c] = None

C4_MalformedStep ==
  \A c \in Conns :
    (Steps(c) /\ reads'[c] = 1 /\ FieldCount(buf'[c]) < 2) => cache' = cache

C4_MalformedShortCircuits == []C4_MalformedInv /\ [][C4_MalformedStep]_vars

\* the 400 response was written for an empty read and for a request
\* without delimiter, while the cache holds an entry
C4_Witness ==
  \E c, d \in Conns :
    /\ pc[c] = "done" /\ buf[c] = << >> /\ sent[c] = MSG_400
    /\ pc[d] = "done" /\ Len(buf[d]) > 0 /\ sent[d] = MSG_400
    /\ cache # {}

(***************************************************************************)
(* C5.  Cache asymmetry: once a verify call has returned false, the cache  *)
(* holds no entry for that token, whatever happened before.                *)
(***************************************************************************)
C5_CacheAsymmetry ==
  \A c \in Conns : verifyRet[c] = Some(FALSE) => ~Cached(auth_token[c])

\* verify returned false through the slow path while the cache is populated
C5_Witness ==
  \E c \in Conns :
    /\ verifyRet[c] = Some(FALSE) /\ slowCalls[c] = 1
    /\ cache # {} /\ now > 0

\* age of the entry the cache holds for the token
Age(e) == now - e.inserted

(***************************************************************************)
(* C6.  Cache idempotence: at the moment a verify call returns true the    *)
(* token is found in the cache, and a call that starts while the token is  *)
(* found there returns the same true from the cache without running the    *)
(* slow path.                                                              *)
(***************************************************************************)
C6_TrueIsCached ==
  \A c \in Conns :
    (verifyRet[c] = None /\ verifyRet'[c] = Some(TRUE)) =>
      \E e \in cache' : e.key = auth_token[c] /\ e.value = TRUE /\ e.inserted + TTL_SECS > now'

C6_HitSkipsSlowPath ==
  \A c \in Conns :
    (pc[c] = "verify" /\ Steps(c)
       /\ \E e \in cache : e.key = auth_token[c] /\ Age(e) < TTL_SECS) =>
      /\ verifyRet'[c] = Some(TRUE)
      /\ pc'[c] # "slow"
      /\ slowCalls' = slowCalls
      /\ cache' = cache

C7_VerifyIsPrefixTest ==
  \A c \in Conns :
    verifyRet[c] # None => verifyRet[c] = Some(HasValidPrefix(auth_token[c]))

\* a token one character short of the prefix was rejected while another
\* pipeline was answered true from the cache
C7_Witness ==
  \E c, d \in Conns :
    /\ verifyRet[c] = Some(FALSE) /\ Len(auth_token[c]) = Len(VALID_PREFIX)
    /\ verifyRet[d] = Some(TRUE) /\ slowCalls[d] = 0 /\ now > 0

(***************************************************************************)
(* C8.  TTL expiry: a verify call is answered from the cache only by an    *)
(* entry no older than TTL_SECS; a call on a token whose entry is older    *)
(* is a miss, runs the slow path, and the slow path of a valid token       *)
(* leaves the token in the cache with an entry inserted now.               *)
(***************************************************************************)
C8_HitIsFresh ==
  \A c \in Conns :
    (pc[c] = "verify" /\ verifyRet'[c] # None) =>
      \E e \in cache : e.key = auth_token[c] /\ Age(e) <= TTL_SECS

C8_ExpiredIsMiss ==
  \A c \in Conns :
    (pc[c] = "verify" /\ Steps(c)
       /\ \A e \in cache : e.key = auth_token[c] => Age(e) > TTL_SECS) =>
      (pc'[c] = "slow" /\ verifyRet'[c] = None)

C8_SlowPathReinserts ==
  \A c \in Conns :
    (pc[c] = "slow" /\ Steps(c)) =>
      /\ slowCalls'[c] = slowCalls[c] + 1
      /\ HasValidPrefix(auth_token[c]) =>
           /\ [key |-> auth_token[c], value |-> TRUE, inserted |-> now] \in cache'
           /\ \A e \in cache' : e.key = auth_token[c] => e.inserted = now

C8_TtlExpiry == [][C8_HitIsFresh /\ C8_ExpiredIsMiss /\ C8_SlowPathReinserts]_vars

\* a pipeline missed on a token whose expired entry is still in the cache
C8_Witness ==
  \E c \in Conns :
    /\ pc[c] = "slow" /\ HasValidPrefix(auth_token[c])
    /\ \E e \in cache : e.key = auth_token[c] /\ Age(e) > TTL_SECS

C10_ProbeIsBounded ==
  \A c \in Conns :
    (pc[c] \in {"verify", "slow", "probe", "write"}) ~> (pc[c] \in Ended)

(***************************************************************************)
(* C11.  Downstream liveness is never cached: a pipeline that passed the   *)
(* credential check makes its own connection attempt, the result it gets   *)
(* is the state of the kernel address at the moment the attempt resolves,  *)
(* and a 200 response is produced only from a success of that attempt.     *)
(***************************************************************************)
C11_ProbeInv ==
  \A c \in Conns :
    /\ (verifyRet[c] = Some(TRUE)) => probeCalls[c] = 1
    /\ (probeRet[c] # None) => probeCalls[c] = 1
    /\ (pc[c] \in {"write", "done"} /\ Is200(resp[c])) =>
         (probeCalls[c] = 1 /\ probeRet[c] = Some(TRUE))

C11_ProbeStep ==
  \A c \in Conns :
    (probeRet[c] = None /\ probeRet'[c] # None) =>
      /\ pc[c] = "probe"
      /\ probeRet'[c] = Some(TRUE) => (downstream = "up" /\ Is200(resp'[c]))
      /\ probeRet'[c] = Some(FALSE) => (downstream # "up" /\ resp'[c] = MSG_503)

C11_ProbeIsFresh == []C11_ProbeInv /\ [][C11_ProbeStep]_vars

\* after one pipeline was accepted, a pipeline answered true from the cache
\* found the kernel address down and got the 503
C11_Witness ==
  \E c, d \in Conns :
    /\ pc[d] = "done" /\ Is200(sent[d]) /\ probeRet[d] = Some(TRUE)
    /\ auth_token[c] = auth_token[d]
    /\ pc[c] = "done" /\ slowCalls[c] = 0 /\ verifyRet[c] = Some(TRUE)
    /\ probeRet[c] = Some(FALSE) /\ sent[c] = MSG_503

(***************************************************************************)
(* C12.  Fault isolation: a transport fault in one pipeline changes        *)
(* neither the listener nor any other pipeline, and while one pipeline is  *)
(* faulted or waiting (for its request, its probe or its write) the        *)
(* listener can still accept into a free slot and every other pipeline     *)
(* can still take its next step.                                           *)
(***************************************************************************)
C12_FaultStep ==
  \A c \in Conns :
    (pc[c] # "fault" /\ pc'[c] = "fault") =>
      /\ lpc' = lpc /\ cache' = cache
      /\ \A d \in Conns \ {c} :
           /\ pc'[d] = pc[d] /\ buf'[d] = buf[d]
           /\ verifyRet'[d] = verifyRet[d] /\ probeRet'[d] = probeRet[d]
           /\ resp'[d] = resp[d] /\ sent'[d] = sent[d]

C12_OthersNotBlocked ==
  \A c \in Conns : \A d \in Conns \ {c} :
    pc[c] \in {"fault", "read", "probe", "write"} =>
      /\ (lpc = "listening" /\ pc[d] \in {"idle"} \cup Ended) => ENABLED Accept(d)
      /\ pc[d] = "read" => ENABLED (\E data \in ReadData : Read(d, data))
      /\ pc[d] = "verify" => ENABLED VerifyGet(d)
      /\ pc[d] = "slow" => ENABLED VerifySlow(d)
      /\ (pc[d] = "probe" /\ downstream # "silent") => ENABLED ProbeResolve(d)
      /\ pc[d] = "write" => ENABLED Write(d)

C12_FaultIsolation == []C12_OthersNotBlocked /\ [][C12_FaultStep]_vars

\* one pipeline has faulted, one waits for a silent kernel address, and the
\* listener is still accepting: the slot of the faulted one can be taken
C12_Witness ==
  \E c, d \in Conns :
    /\ pc[c] = "fault" /\ reads[c] = 0
    /\ pc[d] = "probe" /\ downstream = "silent"
    /\ lpc = "listening"

(***************************************************************************)
(* C13.  Only a configuration error and a failed bind are fatal: once the  *)
(* listener has bound, no later event ends the accept loop.                *)
(***************************************************************************)
C13_ListenerNeverStops == [][lpc = "listening" => lpc' = "listening"]_vars

\* everything after the first '|' of a request that has one
AfterFirstPipe(s) ==
  LET first == CHOOSE i \in 1..Len(s) :
                 s[i] = "|" /\ \A j \in 1..(i - 1) : s[j] # "|"
  IN  SubSeq(s, first + 1, Len(s))

(***************************************************************************)
(* C14.  In a 200 response the payload is substituted verbatim: the        *)
(* response is "200 OK: Payload " + payload + " submetido ao Kernel T1.    *)
(* Aguardando Settlement." where payload is everything after the first     *)
(* '|' of the request exactly as sent.                                     *)
(***************************************************************************)
C14_PayloadVerbatim ==
  \A c \in Conns :
    (pc[c] \in {"write", "done"} /\ Is200(resp[c])) =>
      resp[c] = MSG_200_HEAD \o AfterFirstPipe(buf[c]) \o MSG_200_TAIL

(***************************************************************************)
(* C15.  Flood resistance: a verify call on an invalid token, which        *)
(* returns false, leaves the set of cache entries unchanged at each of     *)
(* its steps, so requests with invalid tokens never evict or replace an    *)
(* entry that a legitimate token inserted.                                 *)
(***************************************************************************)
C15_InvalidStep ==
  \A c \in Conns :
    (/\ Steps(c)
     /\ pc[c] \in {"verify", "slow"}
     /\ (~HasValidPrefix(auth_token[c]) \/ verifyRet'[c] = Some(FALSE)))
      => (cache' = cache /\ verifyRet'[c] \in {None, Some(FALSE)})

C15_FloodResistance == [][C15_InvalidStep]_vars

\* both pipelines had an invalid token refused by the slow path while the
\* entry of an earlier legitimate token is still in the cache, live
C15_Witness ==
  /\ \A c \in Conns :
       /\ verifyRet[c] = Some(FALSE)
       /\ slowCalls[c] = 1
       /\ ~HasValidPrefix(auth_token[c])
  /\ \E e \in cache : HasValidPrefix(e.key) /\ ~IsExpired(e, now)

(***************************************************************************)
(* C16.  An entry expires a fixed time after its insertion, whatever the   *)
(* accesses: the cache lookup of a verify call changes no entry, on a hit  *)
(* or on a miss; an entry gets its insertion time only from a slow-path    *)
(* run at that time; and a lookup TTL_SECS or more after the insertion     *)
(* goes to the slow path.  A token requested all the time is therefore     *)
(* checked by the slow path again in every TTL period.                     *)
(***************************************************************************)
C16_GetStep ==
  \A c \in Conns :
    (Steps(c) /\ pc[c] = "verify") =>
      /\ cache' = cache
      /\ (\A e \in cache : e.key = auth_token[c] => Age(e) >= TTL_SECS)
           => pc'[c] = "slow"

C16_InsertStep ==
  \A e \in cache' \ cache :
    \E c \in Conns :
      /\ pc[c] = "slow" /\ Steps(c)
      /\ e.key = auth_token[c]
      /\ e.inserted = now

C16_TtlIgnoresAccess == [][C16_GetStep /\ C16_InsertStep]_vars

\* the entry was inserted at time 0 and served a hit to d later; at time
\* 400 the same token in c has missed and is about to run the slow path
C16_Witness ==
  \E c \in Conns : \E d \in Conns \ {c} :
    /\ auth_token[d] = auth_token[c]
    /\ verifyRet[d] = Some(TRUE) /\ slowCalls[d] = 0
    /\ pc[c] = "slow"
    /\ \E e \in cache : e.key = auth_token[c] /\ e.inserted = 0 /\ Age(e) >= TTL_SECS

\* the response to a request served alone on an empty cache, given the
\* result of its own probe (None when it makes none)
SoloResponse(data, probe) ==
  LET parts == Split(FromUtf8Lossy(data))
  IN  IF Len(parts) < 2 THEN MSG_400
      ELSE IF ~HasValidPrefix(Trim(parts[1])) THEN MSG_403
      ELSE IF probe = Some(FALSE) THEN MSG_503
      ELSE KernelResponse(Trim(parts[2]))

\* whether a request served alone gets as far as the probe
SoloProbes(data) ==
  LET parts == Split(FromUtf8Lossy(data))
  IN  Len(parts) >= 2 /\ HasValidPrefix(Trim(parts[1]))

(***************************************************************************)
(* C17.  Pipelines are independent but for the cache, and the cache does   *)
(* not change an outcome: with the cache lookup and the insert of a verify *)
(* call as separate steps, under every interleaving the response of a      *)
(* pipeline is the one its own request and its own probe result give when  *)
(* the request is served alone on an empty cache.                          *)
(***************************************************************************)
C17_Independent ==
  \A c \in Conns :
    resp[c] # << >> =>
      /\ resp[c] = SoloResponse(buf[c], probeRet[c])
      /\ (probeRet[c] # None) = SoloProbes(buf[c])

\* c was admitted from the cache and has written its 200; d sent the same
\* request, ran the slow path and inserted, and its own probe failed
C17_Witness ==
  \E c \in Conns : \E d \in Conns \ {c} :
    /\ pc[c] = "done" /\ slowCalls[c] = 0 /\ Is200(sent[c])
    /\ buf[d] = buf[c] /\ slowCalls[d] = 1
    /\ pc[d] = "write" /\ resp[d] = MSG_503

C18_FaultInv ==
  \A c \in Conns :
    pc[c] = "fault" =>
      /\ writes[c] = 0
      /\ IsPrefixOf(sent[c], resp[c])
      /\ resp[c] # << >> => sent[c] # resp[c]
      /\ reads[c] = 0 =>
           /\ sent[c] = << >> /\ resp[c] = << >>
           /\ verifyCalls[c] = 0 /\ slowCalls[c] = 0 /\ probeCalls[c] = 0

C18_FaultStep ==
  \A c \in Conns :
    (pc[c] # "fault" /\ pc'[c] = "fault") => cache' = cache

FirstField(data) == Trim(Split(FromUtf8Lossy(data))[1])

(***************************************************************************)
(* C19.  Invariant of the shared cache under every interleaving: every     *)
(* entry has the value true and a key that starts with AUTH_SYGMA_VALID_   *)
(* and is the trimmed first field of a request, and there is at most one   *)
(* entry per token.  An entry comes in only by the slow path of a pipeline *)
(* carrying its key; no step changes the value of a token's entry; and a   *)
(* token's entry leaves the cache only when its time to live has passed or *)
(* when an insert of another token into the full cache evicts it.          *)
(***************************************************************************)
C19_CacheInv ==
  /\ \A e \in cache :
       /\ e.value = TRUE
       /\ HasValidPrefix(e.key)
       /\ \E data \in ReadData : FieldCount(data) >= 2 /\ e.key = FirstField(data)
  /\ \A e \in cache : \A f \in cache : e.key = f.key => e = f
  /\ \A c \in Conns :
       pc[c] \in {"verify", "slow"} => auth_token[c] = FirstField(buf[c])

C19_CacheStep ==
  /\ \A f \in cache' \ cache :
       \E c \in Conns : pc[c] = "slow" /\ Steps(c) /\ f.key = auth_token[c]
  /\ \A e \in cache : \A f \in cache' : f.key = e.key => f.value = e.value
  /\ \A e \in cache :
       (\A f \in cache' : f.key # e.key) =>
         \/ IsExpired(e, now) /\ cache' = cache \ {e}
         \/ /\ Cardinality(cache) = MAX_CAPACITY
            /\ \E f \in cache' \ cache : f.key # e.key /\ cache' = (cache \ {e}) \cup {f}

C19_CacheInvariant == []C19_CacheInv /\ [][C19_CacheStep]_vars

\* two pipelines with the same token both missed and both ran the slow
\* path, the second insert landing later than the first: one entry remains
C19_Witness ==
  \E c \in Conns : \E d \in Conns \ {c} :
    /\ auth_token[c] = auth_token[d]
    /\ slowCalls[c] = 1 /\ slowCalls[d] = 1
    /\ verifyRet[c] = Some(TRUE) /\ verifyRet[d] = Some(TRUE)
    /\ \E e \in cache : e.key = auth_token[c] /\ e.inserted > 0
    /\ Cardinality({e \in cache : e.key = auth_token[c]}) = 1

====
